---- MODULE Spec2Model ----
(***************************************************************************)
(* Order lookup service of src/app.js: the POST /get_orders handler, its   *)
(* two lookup strategies (searchOrdersByEmail, searchOrdersByPhone), the   *)
(* NodeCache instance it reads and writes, and the request queue the file  *)
(* declares.  JavaScript strings that the code takes apart or glues        *)
(* together (contact_type, contact_info, the cache key) are sequences of   *)
(* one-character strings; opaque strings stay TLA+ strings.                *)
(***************************************************************************)
EXTENDS Integers, Sequences, FiniteSets, TLC

(***************************************************************************)
(* Program constants                                                       *)
(***************************************************************************)
stdTTL == 3600

maxKeys == 1000

MaxCachedOrders == 1000

concurrent == 5

(***************************************************************************)
(* Bounds of the model                                                     *)
(***************************************************************************)
\* most pages the upstream serves to one email lookup
MaxPages == 3

\* requests received in one behaviour
MaxRequests == 3

\* seconds the clock may run past one TTL
MaxSlack == 2

\* connections open at once in the sequential scenarios
MaxClients == 2

\* connections open at once in the crowded scenario
CrowdClients == 6

MaxNow == stdTTL + MaxSlack

(***************************************************************************)
(* JavaScript values                                                       *)
(***************************************************************************)
\* null in a string-valued place
NullStr == "<null>"

\* null in an object-valued place
NULL == [null |-> TRUE]

\* v || d for a string-valued v
OrElse(v, d) == IF v \in {NullStr, ""} THEN d ELSE v

EMAIL == <<"e", "m", "a", "i", "l">>

PHONE == <<"p", "h", "o", "n", "e">>

Digits == {"0", "1", "2", "3", "4", "5", "6", "7", "8", "9"}

\* a key built from the digits of contact_info alone
CacheKeyDigits(contact_type, contact_info) ==
    contact_type \o <<"-">> \o SelectSeq(contact_info, LAMBDA c : c \in Digits)

\* `${contact_type}-${contact_info}`
CacheKey(contact_type, contact_info) == contact_type \o <<"-">> \o contact_info

\* phone.replace(/\D/g, '')
NormalizePhone(phone) == SelectSeq(phone, LAMBDA c : c \in Digits)

\* a concat that keeps only the page just fetched
ConcatLastOnly(allOrders, orders) == orders

\* allOrders.concat(orders)
Concat(allOrders, orders) == allOrders \o orders

\* the first URL of an email lookup
FirstPageUrl(email) == [path |-> "/orders.json", status |-> "any", email |-> email, limit |-> 250]

\* linkHeader.match(/<([^>]+)>;\s*rel="next"/): the links with rel="next", in
\* header order; the match is the first of them
NextLinks(linkHeader) == SelectSeq(linkHeader, LAMBDA l : l.rel = "next")

\* a loop that takes every page for the last
NextPageUrlNone(headers) == NULL

\* nextPageUrl after a response with these headers
NextPageUrl(headers) ==
    IF "link" \notin DOMAIN headers THEN NULL
    ELSE IF NextLinks(headers.link) = <<>> THEN NULL
    ELSE [url |-> Head(NextLinks(headers.link)).url]

\* new Date(s) for a timestamp "2024-01-01Thh:00:00+tz:00", in hours
DateParse(s) == s.hh - s.tz

(***************************************************************************)
(* Order normalisation                                                     *)
(***************************************************************************)
\* a count of the line items, whatever their quantities
SumQuantityCount(items) == Len(items)

RECURSIVE SumQuantity(_)
\* items.reduce((sum, item) => sum + item.quantity, 0)
SumQuantity(items) ==
    IF items = <<>> THEN 0 ELSE Head(items).quantity + SumQuantity(Tail(items))

\* a summary whose tracking_info is null unless the first fulfillment carries
\* a tracking number
RestSummaryUntracked(order) ==
    [order_number |-> order.name,
     created_at |-> order.created_at,
     total_price |-> order.total_price,
     fulfillment_status |-> OrElse(order.fulfillment_status, "unfulfilled"),
     items_count |-> SumQuantity(order.line_items),
     shipping_address |-> order.shipping_address,
     tracking_info |->
        IF "fulfillments" \in DOMAIN order /\ Len(order.fulfillments) > 0
           /\ order.fulfillments[1].tracking_number # NullStr
        THEN [tracking_number |-> order.fulfillments[1].tracking_number,
              tracking_company |-> order.fulfillments[1].tracking_company,
              tracking_url |-> order.fulfillments[1].tracking_url]
        ELSE NULL,
     line_items |->
        [i \in 1..Len(order.line_items) |->
            [title |-> order.line_items[i].title,
             quantity |-> order.line_items[i].quantity,
             price |-> order.line_items[i].price]]]

\* the object searchOrdersByEmail builds from one REST order
RestSummary(order) ==
    [order_number |-> order.name,
     created_at |-> order.created_at,
     total_price |-> order.total_price,
     fulfillment_status |-> OrElse(order.fulfillment_status, "unfulfilled"),
     items_count |-> SumQuantity(order.line_items),
     shipping_address |-> order.shipping_address,
     tracking_info |->
        IF "fulfillments" \in DOMAIN order /\ Len(order.fulfillments) > 0
        THEN [tracking_number |-> order.fulfillments[1].tracking_number,
              tracking_company |-> order.fulfillments[1].tracking_company,
              tracking_url |-> order.fulfillments[1].tracking_url]
        ELSE NULL,
     line_items |->
        [i \in 1..Len(order.line_items) |->
            [title |-> order.line_items[i].title,
             quantity |-> order.line_items[i].quantity,
             price |-> order.line_items[i].price]]]

\* allOrders.map(...) of searchOrdersByEmail
MapRest(allOrders) == [i \in 1..Len(allOrders) |-> RestSummary(allOrders[i])]

\* the nodes of a list of graph edges
Nodes(edges) == [i \in 1..Len(edges) |-> edges[i].node]

\* the object searchOrdersByPhone builds from one graph order
GraphSummary(order) ==
    [order_number |-> order.name,
     created_at |-> order.createdAt,
     total_price |-> order.totalPriceSet.shopMoney.amount,
     currency_code |-> order.totalPriceSet.shopMoney.currencyCode,
     fulfillment_status |-> order.displayFulfillmentStatus,
     items_count |-> SumQuantity(Nodes(order.lineItems.edges)),
     shipping_address |-> order.shippingAddress,
     tracking_info |->
        IF "fulfillments" \in DOMAIN order /\ Len(order.fulfillments) > 0
           /\ Len(order.fulfillments[1].trackingInfo) > 0
        THEN [tracking_company |-> order.fulfillments[1].trackingInfo[1].company,
              tracking_number |-> order.fulfillments[1].trackingInfo[1].number,
              tracking_url |-> order.fulfillments[1].trackingInfo[1].url]
        ELSE NULL,
     line_items |->
        [i \in 1..Len(order.lineItems.edges) |->
            [title |-> order.lineItems.edges[i].node.name,
             quantity |-> order.lineItems.edges[i].node.quantity,
             price |-> order.lineItems.edges[i].node.originalUnitPriceSet.shopMoney.amount]],
     customer_name |-> order.customerName,
     customer_email |-> order.customerEmail]

\* allOrders.map(...) of searchOrdersByPhone
MapGraph(allOrders) == [i \in 1..Len(allOrders) |-> GraphSummary(allOrders[i])]

\* a spread that puts the customer's name where the email belongs
CustomerOrdersNamed(edges, customer) ==
    [i \in 1..Len(edges) |->
        [f \in DOMAIN edges[i].node \cup {"customerName", "customerEmail"} |->
            IF f \in {"customerName", "customerEmail"} THEN customer.displayName
            ELSE edges[i].node[f]]]

\* edges.map(edge => ({...edge.node, customerName, customerEmail}))
CustomerOrders(edges, customer) ==
    [i \in 1..Len(edges) |->
        [f \in DOMAIN edges[i].node \cup {"customerName", "customerEmail"} |->
            IF f = "customerName" THEN customer.displayName
            ELSE IF f = "customerEmail" THEN customer.email
            ELSE edges[i].node[f]]]

\* the comparator (a, b) => new Date(b.createdAt) - new Date(a.createdAt)
CompareCreated(a, b) == DateParse(b.createdAt) - DateParse(a.createdAt)

RECURSIVE SortInsertBeforeTies(_, _)
\* an insertion that puts x in front of the elements it ties with
SortInsertBeforeTies(x, sorted) ==
    IF sorted = <<>> THEN <<x>>
    ELSE IF CompareCreated(Head(sorted), x) < 0
         THEN <<Head(sorted)>> \o SortInsertBeforeTies(x, Tail(sorted))
         ELSE <<x>> \o sorted

RECURSIVE SortInsert(_, _)
\* one insertion of the stable sort: x goes behind every element that does
\* not compare after it
SortInsert(x, sorted) ==
    IF sorted = <<>> THEN <<x>>
    ELSE IF CompareCreated(Head(sorted), x) <= 0
         THEN <<Head(sorted)>> \o SortInsert(x, Tail(sorted))
         ELSE <<x>> \o sorted

RECURSIVE SortCreated(_)
\* allOrders.sort(comparator): Array.prototype.sort is stable
SortCreated(orders) ==
    IF orders = <<>> THEN <<>>
    ELSE SortInsert(orders[Len(orders)], SortCreated(SubSeq(orders, 1, Len(orders) - 1)))

(***************************************************************************)
(* NodeCache({ stdTTL, maxKeys }): data maps a key to its value v and its  *)
(* expiry time t; others counts the entries held under the keys of         *)
(* contacts the model does not name, all written at the same time.         *)
(***************************************************************************)
KeyCount(c) == Cardinality(DOMAIN c.data) + c.others.n

\* a check that lets an entry die one second early
ExpiredAtTtl(entry, clock) == entry.t <= clock

\* _check: an entry is dead once its expiry time lies before the clock
Expired(entry, clock) == entry.t < clock

\* a get that gives the entry it reads a new life of stdTTL
NodeCacheGetSliding(c, key, clock) ==
    IF key \notin DOMAIN c.data THEN [cache |-> c, found |-> FALSE]
    ELSE IF Expired(c.data[key], clock)
         THEN [cache |-> [c EXCEPT !.data = [k \in DOMAIN c.data \ {key} |-> c.data[k]]],
               found |-> FALSE]
         ELSE [cache |-> [c EXCEPT !.data[key].t = clock + stdTTL],
               found |-> TRUE, value |-> c.data[key].v]

\* cache.get(key): the value of a live entry; a dead entry is deleted
NodeCacheGet(c, key, clock) ==
    IF key \notin DOMAIN c.data THEN [cache |-> c, found |-> FALSE]
    ELSE IF Expired(c.data[key], clock)
         THEN [cache |-> [c EXCEPT !.data = [k \in DOMAIN c.data \ {key} |-> c.data[k]]],
               found |-> FALSE]
         ELSE [cache |-> c, found |-> TRUE, value |-> c.data[key].v]

\* a set that never finds the cache full
NodeCacheSetUnbounded(c, key, value, clock) ==
    [cache |-> [c EXCEPT !.data =
                    [k \in DOMAIN c.data \cup {key} |->
                        IF k = key THEN [v |-> value, t |-> clock + stdTTL]
                        ELSE c.data[k]]],
     thrown |-> FALSE]

\* a set that keeps the value a key already has
NodeCacheSetIfAbsent(c, key, value, clock) ==
    IF KeyCount(c) >= maxKeys THEN [cache |-> c, thrown |-> TRUE]
    ELSE [cache |-> [c EXCEPT !.data =
                        [k \in DOMAIN c.data \cup {key} |->
                            IF k \in DOMAIN c.data THEN c.data[k]
                            ELSE [v |-> value, t |-> clock + stdTTL]]],
          thrown |-> FALSE]

\* cache.set(key, value): throws ECACHEFULL when the key count has reached
\* maxKeys, else stores the value with expiry stdTTL from now
NodeCacheSet(c, key, value, clock) ==
    IF KeyCount(c) >= maxKeys THEN [cache |-> c, thrown |-> TRUE]
    ELSE [cache |-> [c EXCEPT !.data =
                        [k \in DOMAIN c.data \cup {key} |->
                            IF k = key THEN [v |-> value, t |-> clock + stdTTL]
                            ELSE c.data[k]]],
          thrown |-> FALSE]

\* the periodic _checkData: every dead entry is deleted
NodeCacheCheckData(c, clock) ==
    [data |-> [k \in {j \in DOMAIN c.data : ~Expired(c.data[j], clock)} |-> c.data[k]],
     others |-> IF c.others.n > 0 /\ Expired(c.others, clock)
                THEN [n |-> 0, t |-> 0] ELSE c.others]

(***************************************************************************)
(* Responses of the handler                                                *)
(***************************************************************************)
\* res.json(orders)
ReplyOrders(orders) == [status |-> 200, json |-> orders]

\* res.status(400).json({ error: 'Invalid contact type' })
ReplyInvalid == [status |-> 400, error |-> "Invalid contact type"]

\* res.status(500).json({ error: '...' })
ReplyFailed ==
    [status |-> 500, error |-> "An error occurred while fetching the order information"]

\* a handler that caches results of any size
StoreAnySize(c, key, orders, clock) ==
    LET set == NodeCacheSet(c, key, orders, clock)
    IN  IF set.thrown THEN [cache |-> c, reply |-> ReplyFailed]
        ELSE [cache |-> set.cache, reply |-> ReplyOrders(orders)]

\* the handler from the strategy's return to its response: orders of at most
\* MaxCachedOrders are written to the cache, and a throwing cache.set lands
\* in the catch block
StoreAndReply(c, key, orders, clock) ==
    IF Len(orders) <= MaxCachedOrders
    THEN LET set == NodeCacheSet(c, key, orders, clock)
         IN  IF set.thrown THEN [cache |-> c, reply |-> ReplyFailed]
             ELSE [cache |-> set.cache, reply |-> ReplyOrders(orders)]
    ELSE [cache |-> c, reply |-> ReplyOrders(orders)]

(***************************************************************************)
(* What the shop may answer.  The upstream is free to answer any request   *)
(* with any of these, or to fail.                                          *)
(***************************************************************************)
Address == [address1 |-> "1 Main St", city |-> "Pune"]

Item(title, quantity) == [title |-> title, quantity |-> quantity, price |-> "5.00"]

\* an unfulfilled order
RestOrder1 ==
    [name |-> "#1001", created_at |-> "2024-01-01", total_price |-> "10.00",
     fulfillment_status |-> NullStr, line_items |-> <<Item("cup", 2)>>,
     shipping_address |-> Address, fulfillments |-> <<>>]

\* a fulfilled order with tracking
RestOrder2 ==
    [name |-> "#1002", created_at |-> "2024-01-02", total_price |-> "25.00",
     fulfillment_status |-> "fulfilled",
     line_items |-> <<Item("cup", 1), Item("mug", 4)>>,
     shipping_address |-> Address,
     fulfillments |-> <<[tracking_number |-> "TN1", tracking_company |-> "UPS",
                         tracking_url |-> "https://ups/TN1"]>>]

\* a fulfilled order whose fulfillment carries no tracking
RestOrder3 ==
    [name |-> "#1003", created_at |-> "2024-01-03", total_price |-> "5.00",
     fulfillment_status |-> "partial", line_items |-> <<Item("mug", 1)>>,
     shipping_address |-> NULL,
     fulfillments |-> <<[tracking_number |-> NullStr, tracking_company |-> NullStr,
                         tracking_url |-> NullStr]>>]

\* an order without a fulfillments field
RestOrder4 ==
    [name |-> "#1004", created_at |-> "2024-01-04", total_price |-> "0.00",
     fulfillment_status |-> "", line_items |-> <<>>, shipping_address |-> NULL]

PageOne == <<RestOrder1>>

PageTwo == <<RestOrder2, RestOrder3>>

\* a page that alone fills a cacheable result
PageFull == [i \in 1..MaxCachedOrders |-> RestOrder4]

\* a page that alone is one order too many to cache
PageOver == Append(PageFull, RestOrder1)

\* the link header of a response that has a following page
LinkNext ==
    [link |-> <<[url |-> "/orders.json?page_info=prev", rel |-> "previous"],
                [url |-> "/orders.json?page_info=next", rel |-> "next"]>>]

\* the link header of a last page that has a page before it
LinkPrevious == [link |-> <<[url |-> "/orders.json?page_info=prev", rel |-> "previous"]>>]

\* a response without a link header
NoLink == [date |-> "today"]

Money(amount) == [shopMoney |-> [amount |-> amount, currencyCode |-> "INR"]]

LineEdge(name, quantity) ==
    [node |-> [name |-> name, quantity |-> quantity, originalUnitPriceSet |-> Money("5.00")]]

GraphOrder(name, created, status, fulfillments) ==
    [node |-> [id |-> name, name |-> name, createdAt |-> created,
               totalPriceSet |-> Money("10.00"), displayFulfillmentStatus |-> status,
               lineItems |-> [edges |-> <<LineEdge("cup", 2), LineEdge("mug", 1)>>],
               shippingAddress |-> Address, fulfillments |-> fulfillments]]

Tracked == <<[trackingInfo |-> <<[company |-> "UPS", number |-> "TN9", url |-> "https://ups/TN9"]>>]>>

Untracked == <<[trackingInfo |-> <<>>]>>

\* orders at T1 and T3
OrdersA ==
    <<GraphOrder("#2001", [hh |-> 1, tz |-> 0], "UNFULFILLED", <<>>),
      GraphOrder("#2003", [hh |-> 3, tz |-> 0], "FULFILLED", Tracked)>>

\* one order at T2
OrdersB == <<GraphOrder("#2002", [hh |-> 2, tz |-> 0], "FULFILLED", Untracked)>>

\* an order at T2 written in another time zone, and one at T3
OrdersC ==
    <<GraphOrder("#2004", [hh |-> 3, tz |-> 1], "UNFULFILLED", <<>>),
      GraphOrder("#2005", [hh |-> 4, tz |-> 1], "FULFILLED", Tracked)>>

\* an order whose record carries no fulfillment status, its one fulfillment
\* without tracking
OrdersD == <<GraphOrder("#2006", [hh |-> 5, tz |-> 0], NullStr, Untracked)>>

CustomerA == [node |-> [id |-> "gid://Customer/1", displayName |-> "Ann", email |-> "ann@x.io"]]

CustomerB == [node |-> [id |-> "gid://Customer/2", displayName |-> "Bob", email |-> "bob@x.io"]]

(***************************************************************************)
(* Requests the clients may send                                           *)
(***************************************************************************)
SMS == <<"s", "m", "s">>

\* a contact_type that is not a valid one but starts like one
EmailDash == EMAIL \o <<"-", "5">>

Info5 == <<"5">>

Info55 == <<"5", "5">>

Info5Dash5 == <<"5", "-", "5">>

InfoLower == <<"a", "@", "x">>

InfoUpper == <<"A", "@", "x">>

(***************************************************************************)
(* Scenarios: who is connected, what they ask, what the shop may answer,   *)
(* and how many entries of other contacts the cache already holds.         *)
(***************************************************************************)
Quiet ==
    [clients |-> 1..1, requests |-> MaxRequests - 1, types |-> {EMAIL}, infos |-> {Info5},
     pages |-> {PageOne}, headers |-> {NoLink}, customers |-> {<<>>},
     orders |-> {OrdersB}, ticks |-> {}, preload |-> 0]

\* one email lookup after another, over shops of up to MaxPages pages
PagingWorld ==
    [Quiet EXCEPT !.pages = {PageOne, PageTwo},
                  !.headers = {LinkNext, LinkPrevious, NoLink}]

\* one phone lookup after another
PhoneWorld ==
    [Quiet EXCEPT !.types = {PHONE}, !.infos = {Info5Dash5},
                  !.customers = {<<>>, <<CustomerA>>, <<CustomerA, CustomerB>>},
                  !.orders = {OrdersA, OrdersB, OrdersC}]

\* every contact_type with every contact_info
TypesWorld ==
    [Quiet EXCEPT !.requests = MaxRequests,
                  !.types = {EMAIL, PHONE, SMS, EmailDash},
                  !.infos = {Info5, Info55, Info5Dash5}]

\* lookups spread over more than one TTL
ClockWorld ==
    [Quiet EXCEPT !.requests = MaxRequests, !.pages = {PageOne, PageTwo},
                  !.ticks = {1, stdTTL}]

\* results of MaxCachedOrders orders and of one more, two lookups at a time
LargeWorld ==
    [Quiet EXCEPT !.clients = 1..MaxClients, !.requests = MaxRequests,
                  !.pages = {PageFull, PageOver}]

\* a cache one entry short of maxKeys: maxKeys - 1 other contacts were looked
\* up at time 0
FullWorld ==
    [Quiet EXCEPT !.requests = MaxRequests, !.infos = {Info5, Info55},
                  !.ticks = {1, stdTTL}, !.preload = maxKeys - 1]

\* two lookups at a time, by email and by phone
PairWorld ==
    [Quiet EXCEPT !.clients = 1..MaxClients, !.requests = MaxRequests,
                  !.types = {EMAIL, PHONE}, !.headers = {LinkNext, NoLink},
                  !.customers = {<<CustomerA>>}]

\* one lookup by email and one by phone, over orders of every shape
ShapesWorld ==
    [Quiet EXCEPT !.types = {EMAIL, PHONE}, !.pages = {PageOne, PageTwo},
                  !.headers = {LinkNext, NoLink}, !.customers = {<<CustomerA>>},
                  !.orders = {OrdersA, OrdersB, OrdersD}]

\* valid lookups whose contacts differ in case or in punctuation only
KeysWorld ==
    [Quiet EXCEPT !.types = {EMAIL, PHONE},
                  !.infos = {InfoLower, InfoUpper, Info55, Info5Dash5},
                  !.customers = {<<>>, <<CustomerA>>}]

Worlds ==
    {PagingWorld, PhoneWorld, TypesWorld, ClockWorld, LargeWorld, FullWorld, PairWorld,
     ShapesWorld, KeysWorld}

\* more connections than the queue has workers
CrowdWorld ==
    [Quiet EXCEPT !.clients = 1..CrowdClients, !.requests = CrowdClients,
                  !.types = {EMAIL, PHONE}]

CrowdWorlds == {CrowdWorld, PairWorld, ClockWorld}

VARIABLES
    now,            \* Date.now(), in seconds
    cache,          \* the NodeCache instance
    reqs,           \* per connection: the handler invocation in progress
    res,            \* the response sent last, with the lookup that led to it
    received,       \* requests received so far
    requestQueue,   \* tasks pushed to the better-queue instance
    answered,       \* per cache key: the result fetched and returned last, when, and for whom
    world           \* the scenario

vars == <<now, cache, reqs, res, received, requestQueue, answered, world>>

Idle == [pc |-> "idle"]

NoResponse == [id |-> 0]

\* what the handler answered to request rq, and how the lookup went
Response(rq, reply, outcome, returned, calls) ==
    [id |-> rq.id, contact_type |-> rq.contact_type, contact_info |-> rq.contact_info,
     reply |-> reply, outcome |-> outcome, returned |-> returned, calls |-> calls,
     at |-> now,
     before |-> LET key == CacheKey(rq.contact_type, rq.contact_info)
                IN  IF key \in DOMAIN cache.data THEN <<cache.data[key].v>> ELSE <<>>]

InitIn(w) ==
    /\ world = w
    /\ now = 0
    /\ cache = [data |-> <<>>, others |-> [n |-> w.preload, t |-> IF w.preload > 0 THEN stdTTL ELSE 0]]
    /\ reqs = [s \in w.clients |-> Idle]
    /\ res = NoResponse
    /\ received = 0
    /\ requestQueue = <<>>
    /\ answered = <<>>

Init == \E w \in Worlds : InitIn(w)

InitCrowd == \E w \in CrowdWorlds : InitIn(w)

\* the connection a new request comes in on
FreeClient(s) ==
    /\ s \in world.clients
    /\ reqs[s] = Idle
    /\ \A q \in world.clients : q < s => reqs[q] # Idle

(***************************************************************************)
(* app.post('/get_orders') up to its first await                           *)
(***************************************************************************)
Receive(s, contact_type, contact_info) ==
    /\ FreeClient(s)
    /\ received < world.requests
    /\ contact_type \in world.types
    /\ contact_info \in world.infos
    /\ received' = received + 1
    /\ LET rq == [id |-> received + 1, contact_type |-> contact_type,
                  contact_info |-> contact_info]
           got == NodeCacheGet(cache, CacheKey(contact_type, contact_info), now)
       IN  /\ cache' = got.cache
           /\ IF got.found
              THEN /\ res' = Response(rq, ReplyOrders(got.value), "hit", <<>>, <<>>)
                   /\ UNCHANGED reqs
              ELSE IF contact_type = EMAIL
              THEN /\ reqs' = [reqs EXCEPT ![s] =
                           [pc |-> "email", id |-> rq.id, contact_type |-> contact_type,
                            contact_info |-> contact_info,
                            nextPageUrl |-> FirstPageUrl(contact_info),
                            allOrders |-> <<>>, calls |-> <<>>]]
                   /\ UNCHANGED res
              ELSE IF contact_type = PHONE
              THEN /\ reqs' = [reqs EXCEPT ![s] =
                           [pc |-> "customers", id |-> rq.id, contact_type |-> contact_type,
                            contact_info |-> contact_info,
                            query |-> <<"p", "h", "o", "n", "e", ":">> \o NormalizePhone(contact_info),
                            calls |-> <<>>]]
                   /\ UNCHANGED res
              ELSE /\ res' = Response(rq, ReplyInvalid, "rejected", <<>>, <<>>)
                   /\ UNCHANGED reqs
    /\ UNCHANGED <<now, requestQueue, answered, world>>

\* the strategy of request rq returned orders: the rest of the handler
Finish(s, rq, orders, calls) ==
    LET key == CacheKey(rq.contact_type, rq.contact_info)
        out == StoreAndReply(cache, key, orders, now)
    IN  /\ cache' = out.cache
        /\ res' = Response(rq, out.reply, "returned", orders, calls)
        /\ reqs' = [reqs EXCEPT ![s] = Idle]
        /\ answered' = IF out.reply.status = 200
                       THEN [k \in DOMAIN answered \cup {key} |->
                                IF k = key
                                THEN [json |-> orders, at |-> now,
                                      contact_type |-> rq.contact_type,
                                      contact_info |-> rq.contact_info]
                                ELSE answered[k]]
                       ELSE answered

\* a catch block that answers with an empty list
FailQuietly(s, rq, calls) ==
    /\ res' = Response(rq, ReplyOrders(<<>>), "threw", <<>>, calls)
    /\ reqs' = [reqs EXCEPT ![s] = Idle]
    /\ UNCHANGED <<cache, answered>>

\* a catch block that gives up every lookup in flight
FailAll(s, rq, calls) ==
    /\ res' = Response(rq, ReplyFailed, "threw", <<>>, calls)
    /\ reqs' = [q \in DOMAIN reqs |-> Idle]
    /\ UNCHANGED <<cache, answered>>

\* an upstream call of request rq threw: the catch block of the handler
Fail(s, rq, calls) ==
    /\ res' = Response(rq, ReplyFailed, "threw", <<>>, calls)
    /\ reqs' = [reqs EXCEPT ![s] = Idle]
    /\ UNCHANGED <<cache, answered>>

(***************************************************************************)
(* searchOrdersByEmail: one turn of the while loop                         *)
(***************************************************************************)
FetchPageOk(s, orders, headers) ==
    /\ s \in world.clients
    /\ reqs[s].pc = "email"
    /\ orders \in world.pages
    /\ headers \in world.headers
    /\ Len(reqs[s].calls) + 1 >= MaxPages => NextPageUrl(headers) = NULL
    /\ LET rq == reqs[s]
           allOrders == Concat(rq.allOrders, orders)
           nextPageUrl == NextPageUrl(headers)
           calls == Append(rq.calls, [request |-> rq.nextPageUrl, orders |-> orders,
                                      headers |-> headers])
       IN  IF nextPageUrl # NULL
           THEN /\ reqs' = [reqs EXCEPT ![s] = [rq EXCEPT !.nextPageUrl = nextPageUrl,
                                                          !.allOrders = allOrders,
                                                          !.calls = calls]]
                /\ UNCHANGED <<cache, res, answered>>
           ELSE Finish(s, rq, MapRest(allOrders), calls)
    /\ UNCHANGED <<now, received, requestQueue, world>>

FetchPageFail(s) ==
    /\ s \in world.clients
    /\ reqs[s].pc = "email"
    /\ Fail(s, reqs[s], Append(reqs[s].calls, [request |-> reqs[s].nextPageUrl, failed |-> TRUE]))
    /\ UNCHANGED <<now, received, requestQueue, world>>

(***************************************************************************)
(* searchOrdersByPhone                                                     *)
(***************************************************************************)
\* the sort and the map that end the strategy
PhoneResult(allOrders) == MapGraph(SortCreated(allOrders))

QueryCustomersOk(s, edges) ==
    /\ s \in world.clients
    /\ reqs[s].pc = "customers"
    /\ edges \in world.customers
    /\ LET rq == reqs[s]
           customers == Nodes(edges)
           calls == Append(rq.calls, [request |-> rq.query, edges |-> edges])
       IN  IF customers # <<>>
           THEN /\ reqs' = [reqs EXCEPT ![s] =
                        [pc |-> "orders", id |-> rq.id, contact_type |-> rq.contact_type,
                         contact_info |-> rq.contact_info, customers |-> customers,
                         next |-> 1, allOrders |-> <<>>, calls |-> calls]]
                /\ UNCHANGED <<cache, res, answered>>
           ELSE Finish(s, rq, PhoneResult(<<>>), calls)
    /\ UNCHANGED <<now, received, requestQueue, world>>

QueryCustomersFail(s) ==
    /\ s \in world.clients
    /\ reqs[s].pc = "customers"
    /\ Fail(s, reqs[s], Append(reqs[s].calls, [request |-> reqs[s].query, failed |-> TRUE]))
    /\ UNCHANGED <<now, received, requestQueue, world>>

QueryOrdersOk(s, edges) ==
    /\ s \in world.clients
    /\ reqs[s].pc = "orders"
    /\ edges \in world.orders
    /\ LET rq == reqs[s]
           customer == rq.customers[rq.next]
           allOrders == Concat(rq.allOrders, CustomerOrders(edges, customer))
           calls == Append(rq.calls, [request |-> customer.id, edges |-> edges])
       IN  IF rq.next < Len(rq.customers)
           THEN /\ reqs' = [reqs EXCEPT ![s] = [rq EXCEPT !.next = rq.next + 1,
                                                          !.allOrders = allOrders,
                                                          !.calls = calls]]
                /\ UNCHANGED <<cache, res, answered>>
           ELSE Finish(s, rq, PhoneResult(allOrders), calls)
    /\ UNCHANGED <<now, received, requestQueue, world>>

QueryOrdersFail(s) ==
    /\ s \in world.clients
    /\ reqs[s].pc = "orders"
    /\ Fail(s, reqs[s], Append(reqs[s].calls,
                [request |-> reqs[s].customers[reqs[s].next].id, failed |-> TRUE]))
    /\ UNCHANGED <<now, received, requestQueue, world>>

(***************************************************************************)
(* Time                                                                    *)
(***************************************************************************)
\* the clock values looked at: up to MaxSlack seconds past a multiple of stdTTL
Tick(d) ==
    /\ now + d <= MaxNow
    /\ (now + d) % stdTTL <= MaxSlack
    /\ now' = now + d
    /\ UNCHANGED <<cache, reqs, res, received, requestQueue, answered, world>>

\* the timer of the NodeCache instance
CheckData ==
    /\ cache' = NodeCacheCheckData(cache, now)
    /\ UNCHANGED <<now, reqs, res, received, requestQueue, answered, world>>

Next ==
    \/ \E s \in world.clients, t \in world.types, i \in world.infos : Receive(s, t, i)
    \/ \E s \in world.clients, p \in world.pages, h \in world.headers : FetchPageOk(s, p, h)
    \/ \E s \in world.clients : FetchPageFail(s)
    \/ \E s \in world.clients, e \in world.customers : QueryCustomersOk(s, e)
    \/ \E s \in world.clients : QueryCustomersFail(s)
    \/ \E s \in world.clients, e \in world.orders : QueryOrdersOk(s, e)
    \/ \E s \in world.clients : QueryOrdersFail(s)
    \/ \E d \in world.ticks : Tick(d)
    \/ CheckData

Spec == Init /\ [][Next]_vars

SpecCrowd == InitCrowd /\ [][Next]_vars

\* the worlds of one lookup after another
PagedWorlds == {PagingWorld, PhoneWorld, ClockWorld}

InitPaged == \E w \in PagedWorlds : InitIn(w)

\* the pending axios.get of the email lookup on connection s settles
FetchPage(s) ==
    \/ \E p \in world.pages, h \in world.headers : FetchPageOk(s, p, h)
    \/ FetchPageFail(s)

\* the shop answers or refuses every page request in the end
SpecPaged ==
    InitPaged /\ [][Next]_vars /\ \A s \in 1..MaxClients : WF_vars(FetchPage(s))

(***************************************************************************)
(* Properties                                                              *)
(***************************************************************************)
ValidType(contact_type) == contact_type \in {EMAIL, PHONE}

\* the cache key of the request answered last
ResKey == CacheKey(res.contact_type, res.contact_info)

\* this step answers a request
Answers == res'.id # res.id

\* this step receives a request for (contact_type, contact_info)
Receives(contact_type, contact_info) ==
    /\ received' = received + 1
    /\ \/ /\ res'.id = received'
          /\ res'.contact_type = contact_type
          /\ res'.contact_info = contact_info
       \/ \E s \in world.clients :
            /\ reqs'[s] # Idle
            /\ reqs'[s].id = received'
            /\ reqs'[s].contact_type = contact_type
            /\ reqs'[s].contact_info = contact_info

\* this step receives a request for (contact_type, contact_info) and answers
\* it with these orders without any upstream call
ServedFromCache(contact_type, contact_info, orders) ==
    /\ res'.id = received'
    /\ res'.contact_type = contact_type
    /\ res'.contact_info = contact_info
    /\ res'.reply = ReplyOrders(orders)
    /\ res'.calls = <<>>

\* C1 as stated: for every valid contact, a lookup received within stdTTL
\* seconds of a lookup that fetched and returned a result for the same
\* contact returns that same result and makes no upstream call.
C1_Original ==
    [][\A t \in {EMAIL, PHONE}, i \in world.infos :
        LET key == CacheKey(t, i)
        IN  (/\ Receives(t, i)
             /\ key \in DOMAIN answered
             /\ now <= answered[key].at + stdTTL)
            => ServedFromCache(t, i, answered[key].json)]_vars

\* C1 amended: for every valid contact, once a lookup has fetched and
\* returned a result of at most MaxCachedOrders orders, a lookup of the same
\* contact received within stdTTL seconds of it (and before another fetched
\* result for that contact is returned) gets the identical result and makes
\* no upstream call.
C1_CachedWithinTtl ==
    [][\A t \in {EMAIL, PHONE}, i \in world.infos :
        LET key == CacheKey(t, i)
        IN  (/\ Receives(t, i)
             /\ key \in DOMAIN answered
             /\ Len(answered[key].json) <= MaxCachedOrders
             /\ now <= answered[key].at + stdTTL)
            => ServedFromCache(t, i, answered[key].json)]_vars

\* a second lookup, later than the first but inside its TTL, was a hit
C1_Witness ==
    /\ res.id > 1
    /\ res.outcome = "hit"
    /\ ValidType(res.contact_type)
    /\ ResKey \in DOMAIN answered
    /\ res.at > answered[ResKey].at
    /\ res.reply = ReplyOrders(answered[ResKey].json)

\* C2 as stated: a request whose contact_type is neither "email" nor "phone"
\* is answered 400 Invalid contact type, whatever the cache holds, and makes
\* no upstream call.
C2_InvalidTypeRejected ==
    (res.id # 0 /\ ~ValidType(res.contact_type))
        => (res.reply = ReplyInvalid /\ res.calls = <<>>)

\* C3 as stated: whenever the strategy of a request returns, the handler
\* answers with exactly that result.
C3_SuccessReturned ==
    (res.id # 0 /\ res.outcome = "returned") => res.reply = ReplyOrders(res.returned)

\* C4 as stated: after a lookup that yields more than MaxCachedOrders orders
\* has been answered, the answer is that result and the cache has no entry
\* for its key.
C4_Original ==
    (res.id # 0 /\ res.outcome = "returned" /\ Len(res.returned) > MaxCachedOrders)
        => (res.reply = ReplyOrders(res.returned) /\ ResKey \notin DOMAIN cache.data)

\* C4 amended: a lookup that yields more than MaxCachedOrders orders is
\* answered with that result and leaves the cache exactly as it was, and
\* every value held in the cache has at most MaxCachedOrders orders.
C4_LargeNotCached ==
    /\ [](\A k \in DOMAIN cache.data : Len(cache.data[k].v) <= MaxCachedOrders)
    /\ [][(Answers /\ res'.outcome = "returned" /\ Len(res'.returned) > MaxCachedOrders)
            => (res'.reply = ReplyOrders(res'.returned) /\ cache' = cache)]_vars

\* a result of more than MaxCachedOrders orders was returned and not cached
C4_Witness ==
    /\ res.id # 0
    /\ res.outcome = "returned"
    /\ Len(res.returned) > MaxCachedOrders
    /\ res.reply = ReplyOrders(res.returned)
    /\ ResKey \notin DOMAIN cache.data

\* C5: the cache never holds more than maxKeys keys.
C5_KeyBound == KeyCount(cache) <= maxKeys

\* a lookup tried to write one more key into a cache of maxKeys keys
C5_Witness ==
    /\ KeyCount(cache) = maxKeys
    /\ res.id # 0
    /\ res.outcome = "returned"
    /\ Len(res.returned) <= MaxCachedOrders
    /\ ResKey \notin DOMAIN cache.data

\* every entry of the cache is live
AllLive(c, clock) ==
    /\ \A k \in DOMAIN c.data : ~Expired(c.data[k], clock)
    /\ c.others.n > 0 => ~Expired(c.others, clock)

\* C6 as stated: when the cache holds maxKeys live keys and a lookup of a
\* new key returns a cacheable result, the new key is admitted and exactly
\* one entry is evicted.
C6_OldestEvicted ==
    [][(/\ Answers
        /\ res'.outcome = "returned"
        /\ Len(res'.returned) <= MaxCachedOrders
        /\ KeyCount(cache) = maxKeys
        /\ AllLive(cache, now)
        /\ CacheKey(res'.contact_type, res'.contact_info) \notin DOMAIN cache.data)
       => (/\ CacheKey(res'.contact_type, res'.contact_info) \in DOMAIN cache'.data
           /\ KeyCount(cache') = maxKeys)]_vars

RECURSIVE PagesOf(_)
\* the orders of the pages served to an email lookup, in the order served
PagesOf(calls) ==
    IF calls = <<>> THEN <<>> ELSE Head(calls).orders \o PagesOf(Tail(calls))

\* the response carries a link with rel="next"
HasNext(headers) ==
    "link" \in DOMAIN headers /\ \E j \in 1..Len(headers.link) : headers.link[j].rel = "next"

\* C7: a returned email lookup was served N >= 1 pages by N upstream calls,
\* every page but the last carried a next link, which the following call
\* requested, the last page carried none, and the result is the normalized
\* orders of the N pages in page order.
C7_AllPages ==
    (res.id # 0 /\ res.outcome = "returned" /\ res.contact_type = EMAIL)
        => LET n == Len(res.calls)
           IN  /\ n >= 1
               /\ \A k \in 1..n : "orders" \in DOMAIN res.calls[k]
               /\ res.calls[1].request = FirstPageUrl(res.contact_info)
               /\ \A k \in 1..(n - 1) :
                    /\ HasNext(res.calls[k].headers)
                    /\ \E j \in 1..Len(res.calls[k].headers.link) :
                         /\ res.calls[k].headers.link[j].rel = "next"
                         /\ res.calls[k + 1].request = [url |-> res.calls[k].headers.link[j].url]
               /\ ~HasNext(res.calls[n].headers)
               /\ res.returned = MapRest(PagesOf(res.calls))

\* an email lookup went through three pages, not all alike
C7_Witness ==
    /\ res.id # 0
    /\ res.outcome = "returned"
    /\ res.contact_type = EMAIL
    /\ Len(res.calls) > 2
    /\ res.calls[1].orders # res.calls[2].orders
    /\ Len(res.returned) = Len(res.calls[1].orders) + Len(res.calls[2].orders)
                            + Len(res.calls[3].orders)

RECURSIVE PerCustomer(_, _, _)
\* the normalized orders the graph queries of a phone lookup returned, customer
\* by customer and order by order, from customer k on
PerCustomer(calls, customers, k) ==
    IF k > Len(customers) THEN <<>>
    ELSE MapGraph(CustomerOrders(calls[k + 1].edges, customers[k]))
            \o PerCustomer(calls, customers, k + 1)

\* the instant an order summary was created at
CreatedAt(summary) == DateParse(summary.created_at)

\* the orders of a list created at instant d, in list order
CreatedOn(orders, d) == SelectSeq(orders, LAMBDA o : CreatedAt(o) = d)

\* C8: the result of a returned phone lookup holds exactly the orders of all
\* matched customers, descending by creation instant, and orders of one
\* instant stand in customer-then-order fetch order.
C8_SortedStable ==
    (res.id # 0 /\ res.outcome = "returned" /\ res.contact_type = PHONE)
        => LET customers == Nodes(res.calls[1].edges)
               fetched == PerCustomer(res.calls, customers, 1)
               out == res.returned
           IN  /\ Len(res.calls) = 1 + Len(customers)
               /\ Len(out) = Len(fetched)
               /\ \A i, j \in 1..Len(out) : i < j => CreatedAt(out[i]) >= CreatedAt(out[j])
               /\ \A i \in 1..Len(fetched) :
                    CreatedOn(out, CreatedAt(fetched[i])) = CreatedOn(fetched, CreatedAt(fetched[i]))

\* a phone lookup over two customers whose orders the sort had to reorder,
\* two of them of one instant
C8_Witness ==
    /\ res.id # 0
    /\ res.outcome = "returned"
    /\ res.contact_type = PHONE
    /\ Len(res.calls) = 3
    /\ res.returned # PerCustomer(res.calls, Nodes(res.calls[1].edges), 1)
    /\ \E i, j \in 1..Len(res.returned) :
         /\ i < j
         /\ CreatedAt(res.returned[i]) = CreatedAt(res.returned[j])
         /\ res.returned[i].created_at # res.returned[j].created_at

\* the upstream call failed
FailedCall(call) == "failed" \in DOMAIN call

\* C9: a lookup whose upstream call fails is answered at once with the
\* generic 500 error, no orders, the cache left as it was and nothing of the
\* lookup left running; no lookup makes a call after a failed one.
C9_FailureAborts ==
    /\ [][(Answers /\ res'.calls # <<>> /\ FailedCall(res'.calls[Len(res'.calls)]))
            => (/\ res'.reply = ReplyFailed
                /\ cache' = cache
                /\ \A s \in world.clients : reqs'[s] = Idle \/ reqs'[s].id # res'.id)]_vars
    /\ [](\A s \in world.clients :
            reqs[s] # Idle => \A k \in 1..Len(reqs[s].calls) : ~FailedCall(reqs[s].calls[k]))
    /\ [](res.id # 0 => \A k \in 1..(Len(res.calls) - 1) : ~FailedCall(res.calls[k]))

\* a lookup failed on a later call, after an earlier one had succeeded
C9_Witness ==
    /\ res.id # 0
    /\ res.reply = ReplyFailed
    /\ Len(res.calls) > 1
    /\ FailedCall(res.calls[Len(res.calls)])

\* the lookup strategies in flight
InFlight == {s \in world.clients : reqs[s] # Idle}

\* C10 as stated: at no time are more than `concurrent` lookup strategies in
\* flight.
C10_AtMostFive == Cardinality(InFlight) <= concurrent

RECURSIVE QuantityUpTo(_, _)
\* the quantities of the first n line items of a summary, added up
QuantityUpTo(line_items, n) ==
    IF n = 0 THEN 0 ELSE QuantityUpTo(line_items, n - 1) + line_items[n].quantity

\* the order summaries of a 200 reply
Summaries(reply) == IF reply.status = 200 THEN reply.json ELSE <<>>

\* the summary stems from the graph variant
IsGraph(summary) == "customer_name" \in DOMAIN summary

\* C11: in every order summary the service sends or keeps, of either variant,
\* items_count is the sum of the quantities of the summary's line_items.
C11_ItemsCount ==
    /\ res.id # 0
        => \A i \in 1..Len(Summaries(res.reply)) :
            LET o == Summaries(res.reply)[i]
            IN  o.items_count = QuantityUpTo(o.line_items, Len(o.line_items))
    /\ \A k \in DOMAIN cache.data :
         \A i \in 1..Len(cache.data[k].v) :
            LET o == cache.data[k].v[i]
            IN  o.items_count = QuantityUpTo(o.line_items, Len(o.line_items))

\* an email result and a phone result have been returned, each with an order
\* of several line items whose quantities are not all one
C11_Witness ==
    \E k1, k2 \in DOMAIN answered :
        /\ \E i \in 1..Len(answered[k1].json) :
            LET o == answered[k1].json[i]
            IN  ~IsGraph(o) /\ Len(o.line_items) > 1 /\ o.items_count > Len(o.line_items)
        /\ \E i \in 1..Len(answered[k2].json) :
            LET o == answered[k2].json[i]
            IN  IsGraph(o) /\ Len(o.line_items) > 1 /\ o.items_count > Len(o.line_items)

\* the upstream order has no fulfillment
Unfulfilled(order) == "fulfillments" \notin DOMAIN order \/ order.fulfillments = <<>>

\* the graph orders a phone lookup was served, over all its order queries
GraphServed(calls) ==
    UNION {{calls[j].edges[i].node : i \in 1..Len(calls[j].edges)} : j \in 2..Len(calls)}

\* C12: in a returned email result the summary of an order without
\* fulfillments has tracking_info null, and the summary of an order with a
\* fulfillment has a tracking_info object holding the first fulfillment's
\* tracking number, company and url, null where the fulfillment has none; in
\* a returned phone result tracking_info is non-null exactly for the orders
\* whose first fulfillment has a non-empty tracking-info list.
C12_TrackingPerVariant ==
    /\ (res.id # 0 /\ res.outcome = "returned" /\ res.contact_type = EMAIL)
        => LET raw == PagesOf(res.calls)
           IN  /\ Len(res.returned) = Len(raw)
               /\ \A i \in 1..Len(raw) :
                    LET t == res.returned[i].tracking_info
                    IN  IF Unfulfilled(raw[i]) THEN t = NULL
                        ELSE /\ t # NULL
                             /\ t.tracking_number = raw[i].fulfillments[1].tracking_number
                             /\ t.tracking_company = raw[i].fulfillments[1].tracking_company
                             /\ t.tracking_url = raw[i].fulfillments[1].tracking_url
    /\ (res.id # 0 /\ res.outcome = "returned" /\ res.contact_type = PHONE)
        => \A i \in 1..Len(res.returned) :
            LET o == res.returned[i]
                served == {r \in GraphServed(res.calls) : r.name = o.order_number}
            IN  /\ served # {}
                /\ \A r \in served :
                     /\ Unfulfilled(r) => o.tracking_info = NULL
                     /\ o.tracking_info # NULL
                          <=> (~Unfulfilled(r) /\ r.fulfillments[1].trackingInfo # <<>>)

\* an email result with an order without fulfillments and an order whose
\* fulfillment has no tracking number has been returned, and a phone result
\* with an order whose fulfillment has an empty tracking-info list is returned
C12_Witness ==
    /\ res.id # 0 /\ res.outcome = "returned" /\ res.contact_type = PHONE
    /\ \E r \in GraphServed(res.calls) :
         /\ ~Unfulfilled(r) /\ r.fulfillments[1].trackingInfo = <<>>
         /\ \E i \in 1..Len(res.returned) :
              res.returned[i].order_number = r.name /\ res.returned[i].tracking_info = NULL
    /\ \E k \in DOMAIN answered :
         /\ \E i \in 1..Len(answered[k].json) :
              ~IsGraph(answered[k].json[i]) /\ answered[k].json[i].tracking_info = NULL
         /\ \E i \in 1..Len(answered[k].json) :
              LET o == answered[k].json[i]
              IN  /\ ~IsGraph(o) /\ o.tracking_info # NULL
                  /\ o.tracking_info.tracking_number = NullStr

\* the keys of a tracking_info object
TrackingKeys == {"tracking_number", "tracking_company", "tracking_url"}

\* tracking_info is null or has every key, each with a value
CompleteTracking(t) ==
    t = NULL \/ (DOMAIN t = TrackingKeys /\ \A f \in TrackingKeys : t[f] # NullStr)

\* C13 as stated: in every order summary the service sends or keeps, of
\* either variant, tracking_info is null or an object whose tracking number,
\* company and url are all present and non-null.
C13_NullOrComplete ==
    /\ res.id # 0
        => \A i \in 1..Len(Summaries(res.reply)) :
            CompleteTracking(Summaries(res.reply)[i].tracking_info)
    /\ \A k \in DOMAIN cache.data :
         \A i \in 1..Len(cache.data[k].v) : CompleteTracking(cache.data[k].v[i].tracking_info)

\* the upstream record carries a value in field f
Carries(order, f) == f \in DOMAIN order /\ order[f] # NullStr

\* C14 as stated: in every order summary the service sends or keeps
\* fulfillment_status is a string, and it is "unfulfilled" whenever the
\* upstream order the summary was built from carries no fulfillment status,
\* in the email variant and in the phone variant alike.
C14_StatusDefaulted ==
    /\ res.id # 0
        => \A i \in 1..Len(Summaries(res.reply)) :
            Summaries(res.reply)[i].fulfillment_status # NullStr
    /\ \A k \in DOMAIN cache.data :
         \A i \in 1..Len(cache.data[k].v) : cache.data[k].v[i].fulfillment_status # NullStr
    /\ (res.id # 0 /\ res.outcome = "returned" /\ res.contact_type = EMAIL)
        => LET raw == PagesOf(res.calls)
           IN  \A i \in 1..Len(raw) :
                ~Carries(raw[i], "fulfillment_status")
                    => res.returned[i].fulfillment_status = "unfulfilled"
    /\ (res.id # 0 /\ res.outcome = "returned" /\ res.contact_type = PHONE)
        => \A i \in 1..Len(res.returned) :
            \A r \in GraphServed(res.calls) :
                (r.name = res.returned[i].order_number
                    /\ ~Carries(r, "displayFulfillmentStatus"))
                    => res.returned[i].fulfillment_status = "unfulfilled"

RECURSIVE FetchedOrders(_, _, _)
\* the graph orders served for customers k and after, each with its
\* customer's name and email, in fetch order
FetchedOrders(calls, customers, k) ==
    IF k > Len(customers) THEN <<>>
    ELSE CustomerOrders(calls[k + 1].edges, customers[k])
            \o FetchedOrders(calls, customers, k + 1)

\* the result a lookup of contact_type computes from what its own upstream
\* calls were answered
OwnResult(contact_type, calls) ==
    IF contact_type = EMAIL THEN MapRest(PagesOf(calls))
    ELSE PhoneResult(FetchedOrders(calls, Nodes(calls[1].edges), 1))

\* a lookup of the contact of the request answered in this step is in flight
\* before and after the step
ConcurrentTwin ==
    \E q \in world.clients :
        /\ reqs[q] # Idle
        /\ reqs'[q] = reqs[q]
        /\ reqs[q].contact_type = res'.contact_type
        /\ reqs[q].contact_info = res'.contact_info

C16_FailureIsolated ==
    /\ [][(Answers /\ res'.reply = ReplyFailed)
            => /\ \A q \in world.clients :
                    (reqs[q] # Idle /\ reqs[q].id # res'.id) => reqs'[q] = reqs[q]
               /\ cache' = cache]_vars
    /\ [][(Answers /\ res'.outcome = "returned" /\ res.id # 0 /\ res.reply = ReplyFailed)
            => res'.returned = OwnResult(res'.contact_type, res'.calls)]_vars

\* a lookup has just failed on its upstream call while another lookup, which
\* has made a call of its own, is in flight and an entry is in the cache
C16_Witness ==
    /\ res.id # 0
    /\ res.reply = ReplyFailed
    /\ FailedCall(res.calls[Len(res.calls)])
    /\ DOMAIN cache.data # {}
    /\ \E q \in world.clients : reqs[q] # Idle /\ reqs[q].calls # <<>>

\* the request received in this step goes to its strategy
Misses == \E s \in world.clients : reqs'[s] # Idle /\ reqs'[s].id = received'

\* C17 as stated: for every valid contact, a lookup received stdTTL seconds
\* or more after the last fetched result for the contact was returned is a
\* miss that goes upstream, however often the entry was read since; and a
\* hit leaves the cache, values and expiry times, as it was.
C17_Original ==
    /\ [][\A t \in {EMAIL, PHONE}, i \in world.infos :
            LET key == CacheKey(t, i)
            IN  (/\ Receives(t, i)
                 /\ key \in DOMAIN answered
                 /\ now >= answered[key].at + stdTTL)
                => Misses]_vars
    /\ [][(Answers /\ res'.outcome = "hit") => cache' = cache]_vars

\* C17: for every valid contact, a lookup received more than stdTTL seconds
\* after the last fetched result for the contact was returned is a miss that
\* goes upstream, however often the entry was read since; and a hit leaves
\* the cache, values and expiry times, as it was.
C17_NoSlidingExpiry ==
    /\ [][\A t \in {EMAIL, PHONE}, i \in world.infos :
            LET key == CacheKey(t, i)
            IN  (/\ Receives(t, i)
                 /\ key \in DOMAIN answered
                 /\ now > answered[key].at + stdTTL)
                => Misses]_vars
    /\ [][(Answers /\ res'.outcome = "hit") => cache' = cache]_vars

\* a result was fetched, read from the cache later, and a lookup received
\* more than stdTTL seconds after the fetch has gone upstream
C17_Witness ==
    /\ res.id # 0
    /\ res.outcome = "hit"
    /\ ResKey \in DOMAIN answered
    /\ res.at > answered[ResKey].at
    /\ now > answered[ResKey].at + stdTTL
    /\ \E s \in world.clients :
         /\ reqs[s] # Idle
         /\ reqs[s].id > res.id
         /\ CacheKey(reqs[s].contact_type, reqs[s].contact_info) = ResKey

\* the summaries of a result that carry the name and email of the customer
OrdersOf(orders, customer) ==
    SelectSeq(orders, LAMBDA o : /\ o.customer_name = customer.displayName
                                 /\ o.customer_email = customer.email)

\* the customer query of a phone lookup
CustomerQuery(contact_info) ==
    <<"p", "h", "o", "n", "e", ":">> \o NormalizePhone(contact_info)

\* C18: a returned phone lookup whose customer query matched k customers has
\* made exactly 1 + k calls, the customer query first and then one order
\* query per customer in the order the customers were returned in, and its
\* result holds for each customer as many orders with that customer's name
\* and email as the customer's order query returned, each order of the
\* result being one of them; a phone lookup in flight has made its calls one
\* after the other in the same sequence.
C18_OneQueryPerCustomer ==
    /\ (res.id # 0 /\ res.outcome = "returned" /\ res.contact_type = PHONE)
        => LET customers == Nodes(res.calls[1].edges)
               k == Len(customers)
           IN  /\ Len(res.calls) = 1 + k
               /\ res.calls[1].request = CustomerQuery(res.contact_info)
               /\ \A j \in 1..k :
                    /\ res.calls[j + 1].request = customers[j].id
                    /\ Len(OrdersOf(res.returned, customers[j])) = Len(res.calls[j + 1].edges)
               /\ \A i \in 1..Len(res.returned) :
                    \E j \in 1..k :
                        /\ OrdersOf(<<res.returned[i]>>, customers[j]) # <<>>
                        /\ \E e \in 1..Len(res.calls[j + 1].edges) :
                             res.calls[j + 1].edges[e].node.name = res.returned[i].order_number
    /\ \A s \in world.clients :
        /\ reqs[s].pc = "customers" => reqs[s].calls = <<>>
        /\ reqs[s].pc = "orders"
            => /\ Len(reqs[s].calls) = reqs[s].next
               /\ reqs[s].next <= Len(reqs[s].customers)
               /\ reqs[s].customers = Nodes(reqs[s].calls[1].edges)
               /\ \A j \in 1..(reqs[s].next - 1) :
                    reqs[s].calls[j + 1].request = reqs[s].customers[j].id

\* a phone lookup over two customers has returned orders of both
C18_Witness ==
    /\ res.id # 0
    /\ res.outcome = "returned"
    /\ res.contact_type = PHONE
    /\ Len(res.calls) = 3
    /\ \A j \in 1..2 : OrdersOf(res.returned, Nodes(res.calls[1].edges)[j]) # <<>>

\* C19: a step of an email lookup ends the lookup exactly when the page
\* request of the step failed or was answered without a next link, so that
\* after any number of pages a page with a next link is followed by another
\* request; and if the shop settles every page request and in the end omits
\* the next link, every email lookup in flight comes to its end.
C19_EndsWithoutNextLink ==
    /\ [][\A s \in world.clients :
            (reqs[s].pc = "email" /\ reqs'[s] # reqs[s])
            => LET calls == IF reqs'[s] = Idle THEN res'.calls ELSE reqs'[s].calls
                   call == calls[Len(calls)]
               IN  /\ Len(calls) = Len(reqs[s].calls) + 1
                   /\ reqs'[s] = Idle <=> (FailedCall(call) \/ ~HasNext(call.headers))
                   /\ reqs'[s] # Idle => reqs'[s].pc = "email"]_vars
    /\ \A s \in 1..MaxClients :
        (s \in DOMAIN reqs /\ reqs[s].pc = "email") ~> (s \in DOMAIN reqs /\ reqs[s] = Idle)

\* an email lookup has come to its end on the first page without a next
\* link, after MaxPages - 1 pages that had one
C19_Witness ==
    /\ res.id # 0
    /\ res.outcome = "returned"
    /\ res.contact_type = EMAIL
    /\ Len(res.calls) = MaxPages
    /\ \A n \in 1..(MaxPages - 1) : HasNext(res.calls[n].headers)
    /\ ~HasNext(res.calls[MaxPages].headers)
    /\ \A s \in world.clients : reqs[s] = Idle

\* a lookup of exactly this contact has fetched and returned a result
Returned(contact_type, contact_info) ==
    \E k \in DOMAIN answered :
        /\ answered[k].contact_type = contact_type
        /\ answered[k].contact_info = contact_info

\* C20: two valid contacts have the same cache key if and only if their
\* contact_type is the same and their contact_info the same string; a valid
\* lookup is served from the cache only out of an entry that a lookup of the
\* same contact_type and the identical contact_info wrote, and a valid lookup
\* goes upstream when no lookup of its very contact has returned yet, though
\* lookups of contacts that differ from it in case or punctuation only have.
C20_RawKey ==
    /\ [](\A t1, t2 \in {EMAIL, PHONE}, i1, i2 \in world.infos :
            CacheKey(t1, i1) = CacheKey(t2, i2) <=> (t1 = t2 /\ i1 = i2))
    /\ [][\A t \in {EMAIL, PHONE}, i \in world.infos :
            LET key == CacheKey(t, i)
            IN  /\ (Receives(t, i) /\ res'.id = received' /\ res'.outcome = "hit")
                    => /\ key \in DOMAIN answered
                       /\ answered[key].contact_type = t
                       /\ answered[key].contact_info = i
                /\ (Receives(t, i) /\ ~Returned(t, i)) => Misses]_vars

\* a phone lookup has made its own customer query though the result of a
\* lookup whose phone number has the same digits is in the cache, and the
\* cache now holds an entry for each of the two
C20_Witness ==
    /\ res.id # 0
    /\ res.outcome = "returned"
    /\ res.contact_type = PHONE
    /\ res.calls # <<>>
    /\ ResKey \in DOMAIN cache.data
    /\ \E k \in DOMAIN cache.data \cap DOMAIN answered :
         /\ k # ResKey
         /\ answered[k].contact_type = PHONE
         /\ answered[k].contact_info # res.contact_info
         /\ answered[k].at <= res.at
         /\ res.calls[1].request = CustomerQuery(answered[k].contact_info)

====
